---- MODULE Spec2Model ----
(***************************************************************************)
(* Force-view-mode plugin (src/main.ts): the resolution pass run on every  *)
(* "active-leaf-change" event, the registry of opened notes, the event     *)
(* registration with its debounce timer, and the host operations (open,    *)
(* close, toggle, settings tab) that surround it.                          *)
(*                                                                         *)
(* Strings the code parses are modelled by their structure:                *)
(*   - a rule directive ("obsidianUIMode: preview") is a sequence of       *)
(*     lexemes, each a word, ":" or " ", so that split(":") and trim()     *)
(*     are computed;                                                       *)
(*   - folder paths, basenames and file patterns are sequences of          *)
(*     characters, so that startsWith and the regular-expression search    *)
(*     are computed.                                                       *)
(***************************************************************************)
EXTENDS Integers, Sequences, FiniteSets, TLC

\* ---------------------------------------------------------------- bounds
MaxFolderRules == 2
MaxFileRules == 2
MaxLeaves == 2
MaxPending == 2
MaxWindow == 2

\* ------------------------------------------------------ program constants
OBSIDIAN_UI_MODE_KEY == "obsidianUIMode"
OBSIDIAN_EDITING_MODE_KEY == "obsidianEditingMode"

\* A value the host reports as undefined / null (absent frontmatter key,
\* unset vault option).
NONE == "<undefined>"

\* The modes a markdown pane can be in (MarkdownView.getMode()).
HostModes == {"source", "preview"}

\* ------------------------------------------------------------ the vault
\* Folder paths of the vault, as character sequences.
RootPath == <<"/">>
PathN == <<"n">>
PathND == <<"n", "/", "d">>
PathNX == <<"n", "x">>
PathZZ == <<"z", "z">>

VaultFolders == {RootPath, PathN, PathND, PathNX}

\* The notes of the vault: N1 = n/d/ab, N2 = nx/ab, N3 = b (in the root).
NoteIds == {"N1", "N2", "N3"}

ParentPath(n) ==
  CASE n = "N1" -> PathND
    [] n = "N2" -> PathNX
    [] OTHER -> RootPath

Basename(n) ==
  CASE n = "N1" -> <<"a", "b">>
    [] n = "N2" -> <<"a", "b">>
    [] OTHER -> <<"b">>

\* ------------------------------------------------------- string helpers
\* s.startsWith(p)
StartsWith(s, p) ==
  /\ Len(p) <= Len(s)
  /\ SubSeq(s, 1, Len(p)) = p

\* s.trim() on a lexeme sequence: drop the blanks at both ends.
RECURSIVE TrimLeft(_)
TrimLeft(s) ==
  IF s # <<>> /\ Head(s) = " " THEN TrimLeft(Tail(s)) ELSE s

RECURSIVE TrimRight(_)
TrimRight(s) ==
  IF s # <<>> /\ s[Len(s)] = " " THEN TrimRight(SubSeq(s, 1, Len(s) - 1)) ELSE s

Trim(s) == TrimRight(TrimLeft(s))

\* s.split(":") on a lexeme sequence: the segments between the colons
\* (always at least one segment).
RECURSIVE SplitColon(_, _)
SplitColon(s, acc) ==
  IF s = <<>> THEN <<acc>>
  ELSE IF Head(s) = ":" THEN <<acc>> \o SplitColon(Tail(s), <<>>)
  ELSE SplitColon(Tail(s), Append(acc, Head(s)))

\* viewMode.split(":").map((s) => s.trim())
SplitAndTrim(viewMode) ==
  LET parts == SplitColon(viewMode, <<>>)
  IN [i \in 1..Len(parts) |-> Trim(parts[i])]

\* basename.match(pattern): a search, anchored only where the pattern says
\* so ("^" first, "$" last); the other characters are literals.
RegexSearch(basename, pattern) ==
  LET anchoredStart == pattern # <<>> /\ Head(pattern) = "^"
      p1 == IF anchoredStart THEN Tail(pattern) ELSE pattern
      anchoredEnd == p1 # <<>> /\ p1[Len(p1)] = "$"
      lit == IF anchoredEnd THEN SubSeq(p1, 1, Len(p1) - 1) ELSE p1
      n == Len(lit)
  IN \E i \in 1..(Len(basename) - n + 1) :
        /\ SubSeq(basename, i, i + n - 1) = lit
        /\ anchoredStart => i = 1
        /\ anchoredEnd => i + n - 1 = Len(basename)

\* new RegExp(pattern) succeeds: over the characters used here, a pattern is
\* malformed exactly when it holds an opening parenthesis (never closed), and
\* basename.match(pattern) then throws a SyntaxError.
IsRegex(pattern) == \A i \in 1..Len(pattern) : pattern[i] # "("

\* ------------------------------------------------- rule tier (main.ts)
\* folderOrFileModeState = null
NullState == [set |-> FALSE, mode |-> NONE, source |-> FALSE]

\* state.state when the view state carries no state object (!state.state)
UndefinedState == [mode |-> NONE, source |-> FALSE]

ModeState(m, src) == [set |-> TRUE, mode |-> m, source |-> src]

\* ["live", "preview", "source"].includes(mode), mode being a trimmed segment
ModeTokens == {"live", "preview", "source"}

IsModeToken(seg) == Len(seg) = 1 /\ seg[1] \in ModeTokens

\* Mutant of setFolderOrFileModeState: the editing-mode key always gives
\* mode "source".
setFolderOrFileModeState_EditingForcesSource(cur, viewMode, paneState) ==
  LET parts == SplitAndTrim(viewMode)
      key == parts[1]
      mode == IF Len(parts) >= 2 THEN parts[2] ELSE <<>>
  IN IF key = <<"default">> THEN NullState
     ELSE IF ~IsModeToken(mode) THEN cur
     ELSE IF key = <<OBSIDIAN_EDITING_MODE_KEY>>
          THEN ModeState("source", mode[1] # "live")
     ELSE IF key = <<OBSIDIAN_UI_MODE_KEY>>
          THEN ModeState(mode[1], FALSE)
     ELSE ModeState(mode[1], paneState.source)

\* Mutant of setFolderOrFileModeState: a mode token that is not recognized
\* clears the state matched so far, as the sentinel does.
setFolderOrFileModeState_MalformedClears(cur, viewMode, paneState) ==
  LET parts == SplitAndTrim(viewMode)
      key == parts[1]
      mode == IF Len(parts) >= 2 THEN parts[2] ELSE <<>>
  IN IF key = <<"default">> THEN NullState
     ELSE IF ~IsModeToken(mode) THEN NullState
     ELSE IF key = <<OBSIDIAN_EDITING_MODE_KEY>>
          THEN IF mode[1] = "live"
               THEN ModeState("source", FALSE)
               ELSE ModeState(mode[1], TRUE)
     ELSE IF key = <<OBSIDIAN_UI_MODE_KEY>>
          THEN ModeState(mode[1], FALSE)
     ELSE ModeState(mode[1], paneState.source)

\* Mutant of setFolderOrFileModeState: the sentinel "default" leaves the
\* state matched so far as it is.
setFolderOrFileModeState_DefaultIsNoOp(cur, viewMode, paneState) ==
  LET parts == SplitAndTrim(viewMode)
      key == parts[1]
      mode == IF Len(parts) >= 2 THEN parts[2] ELSE <<>>
  IN IF key = <<"default">> THEN cur
     ELSE IF ~IsModeToken(mode) THEN cur
     ELSE IF key = <<OBSIDIAN_EDITING_MODE_KEY>>
          THEN IF mode[1] = "live"
               THEN ModeState("source", FALSE)
               ELSE ModeState(mode[1], TRUE)
     ELSE IF key = <<OBSIDIAN_UI_MODE_KEY>>
          THEN ModeState(mode[1], FALSE)
     ELSE ModeState(mode[1], paneState.source)

\* Mutant of setFolderOrFileModeState: a directive whose key is neither a
\* metadata key nor the sentinel leaves the state matched so far as it is.
setFolderOrFileModeState_UnknownKeyIgnored(cur, viewMode, paneState) ==
  LET parts == SplitAndTrim(viewMode)
      key == parts[1]
      mode == IF Len(parts) >= 2 THEN parts[2] ELSE <<>>
  IN IF key = <<"default">> THEN NullState
     ELSE IF ~IsModeToken(mode) THEN cur
     ELSE IF key = <<OBSIDIAN_EDITING_MODE_KEY>>
          THEN IF mode[1] = "live"
               THEN ModeState("source", FALSE)
               ELSE ModeState(mode[1], TRUE)
     ELSE IF key = <<OBSIDIAN_UI_MODE_KEY>>
          THEN ModeState(mode[1], FALSE)
     ELSE cur

\* setFolderOrFileModeState(viewMode): the new value of folderOrFileModeState,
\* given its current value cur and the pane's state.state (paneState).
setFolderOrFileModeState(cur, viewMode, paneState) ==
  LET parts == SplitAndTrim(viewMode)
      key == parts[1]
      mode == IF Len(parts) >= 2 THEN parts[2] ELSE <<>>
  IN IF key = <<"default">> THEN NullState
     ELSE IF ~IsModeToken(mode) THEN cur
     ELSE IF key = <<OBSIDIAN_EDITING_MODE_KEY>>
          THEN IF mode[1] = "live"
               THEN ModeState("source", FALSE)
               ELSE ModeState(mode[1], TRUE)
     ELSE IF key = <<OBSIDIAN_UI_MODE_KEY>>
          THEN ModeState(mode[1], FALSE)
     ELSE ModeState(mode[1], paneState.source)

\* this.app.vault.getAbstractFileByPath(path) instanceof TFolder
IsTFolder(path) == path \in VaultFolders

\* view.file.parent === folder || view.file.parent.path.startsWith(folder.path)
InFolder(note, folderPath) ==
  \/ ParentPath(note) = folderPath
  \/ StartsWith(ParentPath(note), folderPath)

\* Mutant of FolderLoop: the list is applied from its end, so that the
\* first matching rule wins.
RECURSIVE FolderLoop_FirstWins(_, _, _, _, _)
FolderLoop_FirstWins(folders, i, cur, note, paneState) ==
  IF i > Len(folders) THEN cur
  ELSE LET folderMode == folders[i]
           rest == FolderLoop_FirstWins(folders, i + 1, cur, note, paneState)
       IN IF /\ folderMode.folder # <<>>
             /\ folderMode.viewMode # <<>>
             /\ IsTFolder(folderMode.folder)
             /\ InFolder(note, folderMode.folder)
             /\ paneState # UndefinedState
          THEN setFolderOrFileModeState(rest, folderMode.viewMode, paneState)
          ELSE rest

\* Mutant of FolderLoop: a rule whose folder does not exist ends the loop.
RECURSIVE FolderLoop_MissingFolderStops(_, _, _, _, _)
FolderLoop_MissingFolderStops(folders, i, cur, note, paneState) ==
  IF i > Len(folders) THEN cur
  ELSE LET folderMode == folders[i]
           next == IF /\ folderMode.folder # <<>>
                      /\ folderMode.viewMode # <<>>
                      /\ IsTFolder(folderMode.folder)
                      /\ InFolder(note, folderMode.folder)
                      /\ paneState # UndefinedState
                   THEN setFolderOrFileModeState(cur, folderMode.viewMode, paneState)
                   ELSE cur
       IN IF /\ folderMode.folder # <<>>
             /\ folderMode.viewMode # <<>>
             /\ ~IsTFolder(folderMode.folder)
          THEN cur
          ELSE FolderLoop_MissingFolderStops(folders, i + 1, next, note, paneState)

\* for (const folderMode of this.settings.folders) { ... }, from rule i on
RECURSIVE FolderLoop(_, _, _, _, _)
FolderLoop(folders, i, cur, note, paneState) ==
  IF i > Len(folders) THEN cur
  ELSE LET folderMode == folders[i]
           next == IF /\ folderMode.folder # <<>>
                      /\ folderMode.viewMode # <<>>
                      /\ IsTFolder(folderMode.folder)
                      /\ InFolder(note, folderMode.folder)
                      /\ paneState # UndefinedState
                   THEN setFolderOrFileModeState(cur, folderMode.viewMode, paneState)
                   ELSE cur
       IN FolderLoop(folders, i + 1, next, note, paneState)

\* Mutant of FileLoop: a file rule is applied only while no folder rule has
\* set a state, so that the folder rule wins.
RECURSIVE FileLoop_FolderWins(_, _, _, _, _)
FileLoop_FolderWins(files, i, cur, note, paneState) ==
  IF i > Len(files) THEN cur
  ELSE LET rule == files[i]
           next == IF /\ ~cur.set
                      /\ rule.filePattern # <<>>
                      /\ rule.viewMode # <<>>
                      /\ paneState # UndefinedState
                      /\ RegexSearch(Basename(note), rule.filePattern)
                   THEN setFolderOrFileModeState(cur, rule.viewMode, paneState)
                   ELSE cur
       IN FileLoop_FolderWins(files, i + 1, next, note, paneState)

\* for (const { filePattern, viewMode } of this.settings.files) { ... }
RECURSIVE FileLoop(_, _, _, _, _)
FileLoop(files, i, cur, note, paneState) ==
  IF i > Len(files) THEN cur
  ELSE LET rule == files[i]
           next == IF /\ rule.filePattern # <<>>
                      /\ rule.viewMode # <<>>
                      /\ paneState # UndefinedState
                      /\ RegexSearch(Basename(note), rule.filePattern)
                   THEN setFolderOrFileModeState(cur, rule.viewMode, paneState)
                   ELSE cur
       IN FileLoop(files, i + 1, next, note, paneState)

\* ------------------------------------------------------- the registry
\* Mutant of alreadyOpen: the registry entries are compared with the note's
\* path instead of its basename.
alreadyOpen_ByPath(note, opened) ==
  /\ note # NONE
  /\ \E i \in 1..Len(opened) :
       opened[i] = ParentPath(note) \o <<"/">> \o Basename(note)

\* Mutant of alreadyOpen: only the first registry entry is compared.
alreadyOpen_FirstEntryOnly(note, opened) ==
  /\ note # NONE
  /\ Len(opened) > 0
  /\ opened[1] = Basename(note)

\* alreadyOpen(currFile, openedFiles)
alreadyOpen(note, opened) ==
  /\ note # NONE
  /\ \E i \in 1..Len(opened) : opened[i] = Basename(note)

\* leaf.view?.file?.basename of a markdown view without a backing file
UndefinedBasename == <<NONE>>

\* resetOpenedNotes(app): the basenames of the markdown leaves, in leaf order
RECURSIVE ScanLeaves(_, _)
ScanLeaves(lv, i) ==
  IF i > MaxLeaves \/ i \notin DOMAIN lv THEN <<>>
  ELSE (IF lv[i].view # "md" THEN <<>>
        ELSE IF lv[i].file = NONE THEN <<UndefinedBasename>>
        ELSE <<Basename(lv[i].file)>>)
       \o ScanLeaves(lv, i + 1)

resetOpenedNotes(lv) == ScanLeaves(lv, 1)

\* ------------------------------------------------ metadata and defaults
Truthy(v) == v # NONE /\ v # ""

\* Mutant of MetadataState: the editing-mode test is inverted ("live" gives
\* the source flag).
MetadataState_LiveIsSource(fm, paneState) ==
  LET mode == IF /\ Truthy(fm.ui)
                 /\ fm.ui \in {"source", "preview", "live"}
                 /\ paneState.mode # fm.ui
              THEN fm.ui
              ELSE paneState.mode
      source == IF Truthy(fm.ed) /\ fm.ed \in {"source", "live"}
                THEN fm.ed = "live"
                ELSE paneState.source
  IN [mode |-> mode, source |-> source]

\* Mutant of MetadataState: a recognized view-mode key also clears the source
\* flag, as a view-mode directive of a rule does.
MetadataState_UIKeyClearsFlag(fm, paneState) ==
  LET recognized == Truthy(fm.ui) /\ fm.ui \in {"source", "preview", "live"}
      mode == IF recognized /\ paneState.mode # fm.ui THEN fm.ui ELSE paneState.mode
      source == IF Truthy(fm.ed) /\ fm.ed \in {"source", "live"}
                THEN fm.ed = "source"
                ELSE IF recognized THEN FALSE ELSE paneState.source
  IN [mode |-> mode, source |-> source]

\* lines 161-177: the state handed to setViewState in the metadata tier
MetadataState(fm, paneState) ==
  LET mode == IF /\ Truthy(fm.ui)
                 /\ fm.ui \in {"source", "preview", "live"}
                 /\ paneState.mode # fm.ui
              THEN fm.ui
              ELSE paneState.mode
      source == IF Truthy(fm.ed) /\ fm.ed \in {"source", "live"}
                THEN fm.ed = "source"
                ELSE paneState.source
  IN [mode |-> mode, source |-> source]

\* lines 189-191
defaultViewMode(cfg) ==
  IF Truthy(cfg.defaultViewMode) THEN cfg.defaultViewMode ELSE "source"

\* line 193
defaultEditingModeIsLivePreview(cfg) ==
  IF cfg.livePreview = NONE THEN TRUE ELSE cfg.livePreview = "true"

\* Mutant of DefaultState: the source flag is the live-preview default
\* itself, not its negation.
DefaultState_FlagIsLivePreview(cfg, paneState) ==
  [mode |-> IF paneState.mode # defaultViewMode(cfg)
            THEN defaultViewMode(cfg)
            ELSE paneState.mode,
   source |-> defaultEditingModeIsLivePreview(cfg)]

\* lines 196-202: the state handed to setViewState in the default tier
DefaultState(cfg, paneState) ==
  [mode |-> IF paneState.mode # defaultViewMode(cfg)
            THEN defaultViewMode(cfg)
            ELSE paneState.mode,
   source |-> IF defaultEditingModeIsLivePreview(cfg) THEN FALSE ELSE TRUE]

\* ------------------------------------------------------------- state
VARIABLES
  settings,     \* this.settings: debounceTimeout, ignoreOpenFiles,
                \* ignoreForceViewAll, folders, files
  config,       \* this.app.vault.config: defaultViewMode, livePreview
  leaves,       \* the workspace: leaf -> view kind, note, state object,
                \* mode, source flag
  openedFiles,  \* this.openedFiles
  pending,      \* passes suspended at "await leaf.setViewState(state)"
  scheduler,    \* the callback registered for "active-leaf-change" at load
                \* and the state of its debounce timer
  last          \* observation: what the most recent step of a pass did

vars == <<settings, config, leaves, openedFiles, pending, scheduler, last>>

Leaves == 1..MaxLeaves

\* A leaf that hosts no MarkdownView (empty or another view type).
OtherLeaf == [view |-> "other", file |-> NONE, hasState |-> TRUE,
              mode |-> "source", source |-> FALSE, seen |-> FALSE]

\* leaf.getViewState().state, as far as the pass reads it
PaneState(leaf) ==
  IF leaf.hasState THEN [mode |-> leaf.mode, source |-> leaf.source]
  ELSE UndefinedState

NoWrite == [mode |-> NONE, source |-> FALSE]

NoFrontmatter == [ui |-> NONE, ed |-> NONE]

\* getFileCache(view.file) throws (a view without a backing file).
CacheThrows == [ui |-> "<throws>", ed |-> "<throws>"]

NoPass ==
  [kind |-> "none", leaf |-> 0, note |-> NONE, fm |-> NoFrontmatter,
   pre |-> NoWrite, path |-> "none", afterFolders |-> NullState,
   target |-> NullState, wrote |-> FALSE, write |-> NoWrite,
   regBefore |-> <<>>, seenBefore |-> FALSE, threw |-> "none",
   via |-> "none", window |-> <<>>]

\* The continuations of the pass after an awaited setViewState.
Continuations == {"meta", "default"}

PendingCount == pending["meta"] + pending["default"]

\* ---------------------------------------------------------- the pass
\* Mutant of PassPath: the note's frontmatter is consulted before the rules.
PassPath_MetadataFirst(st, leaf, fm, opened, target) ==
  IF leaf.view # "md" THEN "noview"
  ELSE IF st.ignoreOpenFiles /\ alreadyOpen(leaf.file, opened) THEN "skip"
  ELSE IF Truthy(fm.ui) \/ Truthy(fm.ed) THEN "meta"
  ELSE IF target.set THEN "rule"
  ELSE "default"

\* The path a pass takes through readViewModeFromFrontmatterAndToggle: the
\* two early returns (lines 49, 58), then the first tier that applies
\* (lines 136, 179, 189).
PassPath(st, leaf, fm, opened, target) ==
  IF leaf.view # "md" THEN "noview"
  ELSE IF st.ignoreOpenFiles /\ alreadyOpen(leaf.file, opened) THEN "skip"
  ELSE IF target.set THEN "rule"
  ELSE IF Truthy(fm.ui) \/ Truthy(fm.ed) THEN "meta"
  ELSE "default"

\* The folder loop throws: view.file.parent (line 106) of a view without a
\* backing file, reached for the first rule that names an existing folder.
FolderLoopThrows(folders, leaf) ==
  \E i \in DOMAIN folders :
     /\ folders[i].folder # <<>>
     /\ folders[i].viewMode # <<>>
     /\ IsTFolder(folders[i].folder)
     /\ leaf.file = NONE

\* The file loop throws at line 129: view.file.basename of a view without a
\* backing file, or match() on a pattern that is no regular expression.
FileLoopThrows(files, leaf) ==
  \E i \in DOMAIN files :
     /\ files[i].filePattern # <<>>
     /\ files[i].viewMode # <<>>
     /\ leaf.hasState
     /\ (leaf.file = NONE \/ ~IsRegex(files[i].filePattern))

\* readViewModeFromFrontmatterAndToggle(leaf), lines 44-210, up to its first
\* await: which path it takes, the state it hands to setViewState (if any),
\* whether it rebuilds the registry before returning, the continuation it
\* leaves behind the await, and the statement at which it throws (if any).
\* accepted tells whether the host accepts the state write.
ResolvePass(st, cfg, leaf, fm, opened, accepted) ==
  LET paneState == PaneState(leaf)
      afterFolders == FolderLoop(st.folders, 1, NullState, leaf.file, paneState)
      target == FileLoop(st.files, 1, afterFolders, leaf.file, paneState)
      path == PassPath(st, leaf, fm, opened, target)
      out(aF, tg, wrote, write, reset, cont) ==
        [path |-> path, afterFolders |-> aF, target |-> tg, wrote |-> wrote,
         write |-> write, reset |-> reset, cont |-> cont, threw |-> "none"]
      thrown(at) ==
        [path |-> "threw", afterFolders |-> NullState, target |-> NullState,
         wrote |-> FALSE, write |-> NoWrite, reset |-> FALSE, cont |-> "none",
         threw |-> at]
      \* await leaf.setViewState(write): the rest of the pass runs only if the
      \* promise is fulfilled
      setViewState(write, cont, line) ==
        IF accepted
        THEN out(afterFolders, target, TRUE, write, FALSE, cont)
        ELSE [out(afterFolders, target, TRUE, write, FALSE, "none")
                EXCEPT !.threw = line]
  IN IF path = "noview"
     THEN out(NullState, NullState, FALSE, NoWrite, st.ignoreOpenFiles, "none")
     ELSE IF path = "skip"
     THEN out(NullState, NullState, FALSE, NoWrite, TRUE, "none")
     ELSE IF FolderLoopThrows(st.folders, leaf)
     THEN thrown("TypeError:106")
     ELSE IF FileLoopThrows(st.files, leaf)
     THEN thrown(IF leaf.file = NONE THEN "TypeError:129" ELSE "SyntaxError:129")
     ELSE IF path = "rule"
     THEN IF paneState.mode # target.mode \/ paneState.source # target.source
          THEN setViewState([mode |-> target.mode, source |-> target.source],
                            "none", "rejected:142")
          ELSE out(afterFolders, target, FALSE, NoWrite, FALSE, "none")
     ELSE IF fm = CacheThrows
     THEN thrown("TypeError:150")
     ELSE IF path = "meta"
     THEN IF /\ ~leaf.hasState
             /\ fm.ui \in {"source", "preview", "live"}
             /\ leaf.mode # fm.ui
          THEN thrown("TypeError:166")
          ELSE IF ~leaf.hasState /\ fm.ed \in {"source", "live"}
          THEN thrown("TypeError:175")
          ELSE setViewState(IF leaf.hasState THEN MetadataState(fm, paneState)
                            ELSE UndefinedState,
                            "meta", "rejected:180")
     ELSE IF st.ignoreForceViewAll
     THEN out(afterFolders, target, FALSE, NoWrite, FALSE, "none")
     ELSE IF ~leaf.hasState
     THEN thrown(IF leaf.mode # defaultViewMode(cfg) THEN "TypeError:199"
                 ELSE "TypeError:202")
     ELSE setViewState(DefaultState(cfg, paneState), "default", "rejected:204")

\* leaf.setViewState(state) as the host carries it out: a markdown pane is in
\* one of HostModes; what the host does with another mode string is not
\* decided by this repository.
HostModesAfter(mode) == IF mode \in HostModes THEN {mode} ELSE HostModes

\* Mutant of readViewModeFromFrontmatterAndToggle: the state is written to
\* every pane that shows the note of the event's pane.
readViewModeFromFrontmatterAndToggle_WritesEveryPaneOfNote(l, fm, accepted) ==
  /\ PendingCount < MaxPending
  /\ \E leaf \in {leaves[l]} :
     \E r \in {ResolvePass(settings, config, leaf, fm, openedFiles, accepted)} :
     \E applied \in {r.wrote /\ r.threw = "none" /\ r.write # UndefinedState} :
        /\ \E m \in (IF applied THEN HostModesAfter(r.write.mode) ELSE {leaf.mode}) :
             leaves' = [k \in DOMAIN leaves |->
                          IF k = l
                          THEN [leaf EXCEPT !.mode = m,
                                            !.source = IF applied THEN r.write.source
                                                       ELSE leaf.source,
                                            !.seen = (leaf.view = "md")]
                          ELSE IF applied /\ leaves[k].view = "md"
                                  /\ leaves[k].file = leaf.file
                          THEN [leaves[k] EXCEPT !.mode = m,
                                                 !.source = r.write.source]
                          ELSE leaves[k]]
        /\ openedFiles' = IF r.reset THEN resetOpenedNotes(leaves) ELSE openedFiles
        /\ pending' = IF r.cont = "none" THEN pending
                      ELSE [pending EXCEPT ![r.cont] = @ + 1]
        /\ last' = [kind |-> "pass", leaf |-> l, note |-> leaf.file, fm |-> fm,
                    pre |-> PaneState(leaf), path |-> r.path,
                    afterFolders |-> r.afterFolders, target |-> r.target,
                    wrote |-> r.wrote, write |-> r.write,
                    regBefore |-> openedFiles, seenBefore |-> leaf.seen,
                    threw |-> r.threw,
                    via |-> IF scheduler.debounced THEN "timer" ELSE "event",
                    window |-> scheduler.window]
  /\ UNCHANGED <<settings, config>>

\* One call readViewModeFromFrontmatterAndToggle(leaf) for leaf l, the note's
\* frontmatter being fm at that moment, up to its first await or its return.
readViewModeFromFrontmatterAndToggle(l, fm, accepted) ==
  /\ PendingCount < MaxPending
  /\ \E leaf \in {leaves[l]} :
     \E r \in {ResolvePass(settings, config, leaf, fm, openedFiles, accepted)} :
     \E applied \in {r.wrote /\ r.threw = "none" /\ r.write # UndefinedState} :
        /\ \E m \in (IF applied THEN HostModesAfter(r.write.mode) ELSE {leaf.mode}) :
             leaves' = [leaves EXCEPT ![l] =
                          [leaf EXCEPT !.mode = m,
                                       !.source = IF applied THEN r.write.source
                                                  ELSE leaf.source,
                                       !.seen = (leaf.view = "md")]]
        /\ openedFiles' = IF r.reset THEN resetOpenedNotes(leaves) ELSE openedFiles
        /\ pending' = IF r.cont = "none" THEN pending
                      ELSE [pending EXCEPT ![r.cont] = @ + 1]
        /\ last' = [kind |-> "pass", leaf |-> l, note |-> leaf.file, fm |-> fm,
                    pre |-> PaneState(leaf), path |-> r.path,
                    afterFolders |-> r.afterFolders, target |-> r.target,
                    wrote |-> r.wrote, write |-> r.write,
                    regBefore |-> openedFiles, seenBefore |-> leaf.seen,
                    threw |-> r.threw,
                    via |-> IF scheduler.debounced THEN "timer" ELSE "event",
                    window |-> scheduler.window]
  /\ UNCHANGED <<settings, config>>

\* The rest of a pass once its awaited setViewState has completed:
\* lines 182-186 (metadata tier) and line 206 (default tier).
ResumeAfterSetViewState(k) ==
  /\ pending[k] > 0
  /\ pending' = [pending EXCEPT ![k] = @ - 1]
  /\ openedFiles' = IF k = "default" \/ settings.ignoreOpenFiles
                    THEN resetOpenedNotes(leaves)
                    ELSE openedFiles
  /\ last' = IF last.kind = "pass" /\ PendingCount = 1
             THEN [last EXCEPT !.kind = "done"]
             ELSE NoPass
  /\ UNCHANGED <<settings, config, leaves, scheduler>>

\* ------------------------------------------------ the event registration
\* Mutant of onloadScheduler: the callback is debounced whatever the delay.
onloadScheduler_AlwaysDebounced(st) ==
  [debounced |-> TRUE, delay |-> st.debounceTimeout, timer |-> FALSE,
   args |-> 0, window |-> <<>>]

\* onload(), lines 214-224: the callback registered is the pass itself when
\* debounceTimeout is 0 and debounce(pass, debounceTimeout) otherwise; no
\* call is scheduled yet. delay is the delay the registration was made with;
\* window lists the leaves of the events received since the timer was started.
onloadScheduler(st) ==
  [debounced |-> st.debounceTimeout # 0, delay |-> st.debounceTimeout,
   timer |-> FALSE, args |-> 0, window |-> <<>>]

\* Mutant of debounce: the first call of a window fixes the arguments.
debounce_KeepsFirstArgs(sched, l) ==
  [sched EXCEPT !.timer = TRUE,
                !.args = IF sched.timer THEN @ ELSE l,
                !.window = Append(@, l)]

\* A call of the function returned by debounce(cb, timeout) (resetTimer not
\* given): the arguments of the call replace the stored ones, and the timer
\* is started unless it is running.
debounce(sched, l) ==
  [sched EXCEPT !.timer = TRUE, !.args = l, !.window = Append(@, l)]

\* The workspace triggers "active-leaf-change" for leaf l.
ActiveLeafChange(l, fm, accepted) ==
  IF scheduler.debounced
  THEN /\ Len(scheduler.window) < MaxWindow
       /\ scheduler' = debounce(scheduler, l)
       /\ last' = [NoPass EXCEPT !.kind = "event", !.leaf = l]
       /\ UNCHANGED <<settings, config, leaves, openedFiles, pending>>
  ELSE /\ readViewModeFromFrontmatterAndToggle(l, fm, accepted)
       /\ UNCHANGED scheduler

\* The debounce timer expires: the pass is called with the stored arguments.
DebounceFires(fm, accepted) ==
  /\ scheduler.timer
  /\ readViewModeFromFrontmatterAndToggle(scheduler.args, fm, accepted)
  /\ scheduler' = [scheduler EXCEPT !.timer = FALSE, !.args = 0, !.window = <<>>]

\* ------------------------------------------- the host and the settings tab
\* The user opens note n in leaf l: a markdown pane keeps its mode, a leaf of
\* another kind gets a new MarkdownView in a mode the host chooses.
OpenFile(l, n) ==
  /\ ~(leaves[l].view = "md" /\ leaves[l].file = n)
  /\ \E m \in HostModes, src \in BOOLEAN :
       /\ leaves[l].view = "md" => (m = leaves[l].mode /\ src = leaves[l].source)
       /\ leaves' = [leaves EXCEPT ![l] =
                       [view |-> "md", file |-> n, hasState |-> TRUE,
                        mode |-> m, source |-> src, seen |-> FALSE]]
  /\ last' = NoPass
  /\ UNCHANGED <<settings, config, openedFiles, pending, scheduler>>

\* The user closes the pane (or replaces the note by a view of another kind).
CloseLeaf(l) ==
  /\ leaves[l].view = "md"
  /\ leaves' = [leaves EXCEPT ![l] = OtherLeaf]
  /\ last' = NoPass
  /\ UNCHANGED <<settings, config, openedFiles, pending, scheduler>>

\* The user switches the pane between reading, live preview and source mode.
UserSetMode(l, m, src) ==
  /\ leaves[l].view = "md"
  /\ <<m, src>> # <<leaves[l].mode, leaves[l].source>>
  /\ leaves' = [leaves EXCEPT ![l] = [@ EXCEPT !.mode = m, !.source = src]]
  /\ last' = NoPass
  /\ UNCHANGED <<settings, config, openedFiles, pending, scheduler>>

\* Settings tab, "Ignore opened files" toggle (lines 308-318).
SetIgnoreOpenFiles(value) ==
  /\ value # settings.ignoreOpenFiles
  /\ settings' = [settings EXCEPT !.ignoreOpenFiles = value]
  /\ last' = NoPass
  /\ UNCHANGED <<config, leaves, openedFiles, pending, scheduler>>

\* Settings tab, "Ignore force view when not in frontmatter" toggle (319-331).
SetIgnoreForceViewAll(value) ==
  /\ value # settings.ignoreForceViewAll
  /\ settings' = [settings EXCEPT !.ignoreForceViewAll = value]
  /\ last' = NoPass
  /\ UNCHANGED <<config, leaves, openedFiles, pending, scheduler>>

\* Mutant of SetDebounceTimeout: the event callback is registered again with
\* the new delay.
SetDebounceTimeout_RegistersAgain(value) ==
  /\ value # settings.debounceTimeout
  /\ settings' = [settings EXCEPT !.debounceTimeout = value]
  /\ scheduler' = onloadScheduler(settings')
  /\ last' = NoPass
  /\ UNCHANGED <<config, leaves, openedFiles, pending>>

\* Settings tab, "Debounce timeout in milliseconds" text field (333-342).
SetDebounceTimeout(value) ==
  /\ value # settings.debounceTimeout
  /\ settings' = [settings EXCEPT !.debounceTimeout = value]
  /\ last' = NoPass
  /\ UNCHANGED <<config, leaves, openedFiles, pending, scheduler>>

\* ------------------------------------------------------------- inputs
\* Directive strings, as lexeme sequences.
Directive(key, mode) == <<key, ":", " ", mode>>

DEFAULT_DIRECTIVE == <<"default">>

\* The same directive written without the blank, and with blanks around
\* both parts.
DirectiveCompact(key, mode) == <<key, ":", mode>>

DirectivePadded(key, mode) == <<" ", key, " ", ":", " ", mode, " ">>

MetadataKeys == {OBSIDIAN_UI_MODE_KEY, OBSIDIAN_EDITING_MODE_KEY}

\* Every directive with a metadata key and a mode token, in three spellings.
RecognizedDirectives ==
  UNION { {Directive(k, t), DirectiveCompact(k, t), DirectivePadded(k, t)} :
            k \in MetadataKeys, t \in ModeTokens }

EmptyFolderRule == [folder |-> <<>>, viewMode |-> <<>>]

EmptyFileRule == [filePattern |-> <<>>, viewMode |-> <<>>]

\* Folder rules the rule-matching specification draws from: a parent folder,
\* a child folder, the sentinel, a folder that does not exist, a malformed
\* mode token, and the empty rule of DEFAULT_SETTINGS.
FolderRuleCatalogue ==
  { [folder |-> PathN, viewMode |-> Directive(OBSIDIAN_UI_MODE_KEY, "preview")],
    [folder |-> PathND, viewMode |-> Directive(OBSIDIAN_EDITING_MODE_KEY, "source")],
    [folder |-> PathND, viewMode |-> DEFAULT_DIRECTIVE],
    [folder |-> PathZZ, viewMode |-> Directive(OBSIDIAN_UI_MODE_KEY, "source")],
    [folder |-> PathN, viewMode |-> Directive(OBSIDIAN_UI_MODE_KEY, "reading")],
    EmptyFolderRule }

\* File rules: patterns "b$", "a", "^b"; a directive written without the
\* blank, the sentinel (for the root note and for the notes in folders), a
\* key that is neither metadata key, a malformed mode token, the empty rule.
FileRuleCatalogue ==
  { [filePattern |-> <<"b", "$">>,
     viewMode |-> <<OBSIDIAN_UI_MODE_KEY, ":", "source">>],
    [filePattern |-> <<"a">>,
     viewMode |-> Directive(OBSIDIAN_EDITING_MODE_KEY, "live")],
    [filePattern |-> <<"^", "b">>, viewMode |-> DEFAULT_DIRECTIVE],
    [filePattern |-> <<"a">>, viewMode |-> DEFAULT_DIRECTIVE],
    [filePattern |-> <<"a">>, viewMode |-> Directive("mode", "preview")],
    [filePattern |-> <<"b", "$">>,
     viewMode |-> Directive(OBSIDIAN_UI_MODE_KEY, "reading")],
    EmptyFileRule }

SeqsUpTo(S, n) == UNION {[1..k -> S] : k \in 0..n}

UIValues == {NONE, "source", "preview", "live", "reading"}

EditingValues == {NONE, "source", "live", "preview"}

FrontmatterAll == [ui : UIValues, ed : EditingValues]

FrontmatterFew ==
  { NoFrontmatter,
    [ui |-> "preview", ed |-> NONE],
    [ui |-> "source", ed |-> "source"] }

ConfigAll == [defaultViewMode : {NONE, "source", "preview"},
              livePreview : {NONE, "true", "false"}]

\* A markdown leaf showing any note in any state; seen tells whether the
\* note was on display in the leaf before the latest step.
MarkdownLeaves(seen) ==
  [view : {"md"}, file : NoteIds, hasState : {TRUE}, mode : HostModes,
   source : BOOLEAN, seen : {seen}]

NoPending == [k \in Continuations |-> 0]

\* ----------------------------------------------------- specifications
\* The session: onload() (lines 37-42) on a workspace of MaxLeaves leaves,
\* then events, host operations and settings changes in any order. In this
\* and the next two specifications the plugin is loaded with debounceTimeout
\* 0 (every event calls the pass at once), the panes have a state object and
\* a backing file, the file patterns are regular expressions and the host
\* accepts every state write.
Init ==
  /\ settings \in [debounceTimeout : {0},
                   ignoreOpenFiles : BOOLEAN, ignoreForceViewAll : BOOLEAN,
                   folders : { <<[folder |-> PathND,
                                  viewMode |-> Directive(OBSIDIAN_UI_MODE_KEY, "preview")]>> },
                   files : { <<EmptyFileRule>> }]
  /\ config = [defaultViewMode |-> "preview", livePreview |-> NONE]
  /\ leaves \in [Leaves -> MarkdownLeaves(TRUE) \cup {OtherLeaf}]
  /\ openedFiles = resetOpenedNotes(leaves)
  /\ pending = NoPending
  /\ scheduler = onloadScheduler(settings)
  /\ last = NoPass

Next ==
  \/ \E l \in Leaves, fm \in FrontmatterFew : ActiveLeafChange(l, fm, TRUE)
  \/ \E k \in Continuations : ResumeAfterSetViewState(k)
  \/ \E l \in Leaves, n \in NoteIds : OpenFile(l, n)
  \/ \E l \in Leaves : CloseLeaf(l)
  \/ \E l \in Leaves, m \in HostModes, src \in BOOLEAN : UserSetMode(l, m, src)
  \/ \E value \in BOOLEAN : SetIgnoreOpenFiles(value)
  \/ \E value \in BOOLEAN : SetIgnoreForceViewAll(value)

Spec == Init /\ [][Next]_vars

\* Rule matching: every list of folder and file rules over the catalogues,
\* one pane showing any note in any state, passes with a few frontmatters.
InitRules ==
  /\ settings \in [debounceTimeout : {0},
                   ignoreOpenFiles : {FALSE}, ignoreForceViewAll : {FALSE},
                   folders : SeqsUpTo(FolderRuleCatalogue, MaxFolderRules),
                   files : SeqsUpTo(FileRuleCatalogue, MaxFileRules)]
  /\ config = [defaultViewMode |-> "preview", livePreview |-> NONE]
  /\ leaves \in [{1} -> MarkdownLeaves(TRUE)]
  /\ openedFiles = resetOpenedNotes(leaves)
  /\ pending = NoPending
  /\ scheduler = onloadScheduler(settings)
  /\ last = NoPass

NextRules ==
  \/ \E l \in DOMAIN leaves, fm \in FrontmatterFew : ActiveLeafChange(l, fm, TRUE)
  \/ \E k \in Continuations : ResumeAfterSetViewState(k)

SpecRules == InitRules /\ [][NextRules]_vars

\* Metadata and defaults: every frontmatter, every vault configuration, both
\* settings flags, with no rule, a matching rule, or a rule cleared again.
InitMeta ==
  /\ settings \in [debounceTimeout : {0},
                   ignoreOpenFiles : BOOLEAN, ignoreForceViewAll : BOOLEAN,
                   folders : { <<EmptyFolderRule>>,
                               <<[folder |-> PathN,
                                  viewMode |-> Directive(OBSIDIAN_UI_MODE_KEY, "preview")]>>,
                               <<[folder |-> PathN,
                                  viewMode |-> Directive(OBSIDIAN_UI_MODE_KEY, "preview")],
                                 [folder |-> PathND, viewMode |-> DEFAULT_DIRECTIVE]>> },
                   files : { <<EmptyFileRule>> }]
  /\ config \in ConfigAll
  /\ \E atLoad \in BOOLEAN :
       \* the note was on display when the plugin loaded, or was opened since
       /\ leaves \in [{1} -> MarkdownLeaves(atLoad)]
       /\ openedFiles = IF atLoad THEN resetOpenedNotes(leaves) ELSE <<>>
  /\ pending = NoPending
  /\ scheduler = onloadScheduler(settings)
  /\ last = NoPass

NextMeta ==
  \/ \E l \in DOMAIN leaves, fm \in FrontmatterAll : ActiveLeafChange(l, fm, TRUE)
  \/ \E k \in Continuations : ResumeAfterSetViewState(k)

SpecMeta == InitMeta /\ [][NextMeta]_vars

\* Debouncing: the plugin loaded with debounceTimeout 0 or 300 (the value of
\* DEFAULT_SETTINGS), MaxLeaves panes, events for any pane at any moment, the
\* delay edited in the settings tab. The timer of a pending debounced call
\* expires at some point, and an awaited state write completes.
DebounceTimeouts == {0, 300}

\* The panes of the debouncing specification: no note view, or a note in
\* the root, in raw source mode, that takes the global default.
DebounceLeaves ==
  { OtherLeaf,
    [view |-> "md", file |-> "N3", hasState |-> TRUE, mode |-> "source",
     source |-> TRUE, seen |-> TRUE] }

InitDebounce ==
  /\ settings \in [debounceTimeout : DebounceTimeouts,
                   ignoreOpenFiles : {FALSE}, ignoreForceViewAll : {FALSE},
                   folders : { <<[folder |-> PathND,
                                  viewMode |-> Directive(OBSIDIAN_UI_MODE_KEY, "preview")]>> },
                   files : { <<EmptyFileRule>> }]
  /\ config = [defaultViewMode |-> "preview", livePreview |-> NONE]
  /\ leaves \in [Leaves -> DebounceLeaves]
  /\ openedFiles = resetOpenedNotes(leaves)
  /\ pending = NoPending
  /\ scheduler = onloadScheduler(settings)
  /\ last = NoPass

NextDebounce ==
  \/ \E l \in Leaves : ActiveLeafChange(l, NoFrontmatter, TRUE)
  \/ DebounceFires(NoFrontmatter, TRUE)
  \/ \E k \in Continuations : ResumeAfterSetViewState(k)
  \/ \E value \in DebounceTimeouts : SetDebounceTimeout(value)

SpecDebounce ==
  /\ InitDebounce
  /\ [][NextDebounce]_vars
  /\ WF_vars(DebounceFires(NoFrontmatter, TRUE))
  /\ WF_vars(\E k \in Continuations : ResumeAfterSetViewState(k))

\* Failures: one pane that may lack a backing file or a state object, a file
\* rule whose pattern "(" is no regular expression, a metadata cache that
\* throws for a view without a file, and a host that may reject the write.
InitErrors ==
  /\ settings \in [debounceTimeout : {0},
                   ignoreOpenFiles : {FALSE}, ignoreForceViewAll : BOOLEAN,
                   folders : { <<EmptyFolderRule>>,
                               <<[folder |-> PathN,
                                  viewMode |-> Directive(OBSIDIAN_UI_MODE_KEY, "preview")]>> },
                   files : { <<EmptyFileRule>>,
                             <<[filePattern |-> <<"(">>,
                                viewMode |-> Directive(OBSIDIAN_UI_MODE_KEY, "source")]>>,
                             <<[filePattern |-> <<"^", "b">>,
                                viewMode |-> Directive(OBSIDIAN_UI_MODE_KEY, "source")]>> }]
  /\ config = [defaultViewMode |-> "preview", livePreview |-> NONE]
  /\ leaves \in [{1} -> [view : {"md"}, file : NoteIds \cup {NONE},
                         hasState : BOOLEAN, mode : HostModes,
                         source : BOOLEAN, seen : {TRUE}]]
  /\ openedFiles = resetOpenedNotes(leaves)
  /\ pending = NoPending
  /\ scheduler = onloadScheduler(settings)
  /\ last = NoPass

NextErrors ==
  \/ \E l \in DOMAIN leaves, fm \in FrontmatterFew \cup {CacheThrows},
         accepted \in BOOLEAN :
       \* a view without a file has no frontmatter: the cache answers null
       \* or throws; it throws for no other view
       /\ leaves[l].file = NONE => fm \in {NoFrontmatter, CacheThrows}
       /\ fm = CacheThrows => leaves[l].file = NONE
       /\ ActiveLeafChange(l, fm, accepted)
  \/ \E k \in Continuations : ResumeAfterSetViewState(k)

SpecErrors == InitErrors /\ [][NextErrors]_vars

\* Decoding: a single rule, a folder rule for "n" or a file rule for "b$",
\* carrying any recognized directive; one pane showing any note in any state.
InitDecode ==
  /\ settings \in
       [debounceTimeout : {0},
        ignoreOpenFiles : {FALSE}, ignoreForceViewAll : {FALSE},
        folders : { <<[folder |-> PathN, viewMode |-> d]>> :
                      d \in RecognizedDirectives },
        files : { <<EmptyFileRule>> }]
       \cup
       [debounceTimeout : {0},
        ignoreOpenFiles : {FALSE}, ignoreForceViewAll : {FALSE},
        folders : { <<EmptyFolderRule>> },
        files : { <<[filePattern |-> <<"b", "$">>, viewMode |-> d]>> :
                    d \in RecognizedDirectives }]
  /\ config = [defaultViewMode |-> "preview", livePreview |-> NONE]
  /\ leaves \in [{1} -> MarkdownLeaves(TRUE)]
  /\ openedFiles = resetOpenedNotes(leaves)
  /\ pending = NoPending
  /\ scheduler = onloadScheduler(settings)
  /\ last = NoPass

NextDecode ==
  \/ \E l \in DOMAIN leaves : ActiveLeafChange(l, NoFrontmatter, TRUE)
  \/ \E k \in Continuations : ResumeAfterSetViewState(k)

SpecDecode == InitDecode /\ [][NextDecode]_vars

\* ------------------------------------------------ vocabulary of the claims
MaxOf(S) == CHOOSE x \in S : \A y \in S : y <= x

\* The step just taken was a pass that got past the two early returns.
PassRan == last.kind = "pass" /\ last.path \notin {"noview", "skip"}

PaneAfter == PaneState(leaves[last.leaf])

\* A directive is well formed when it is the sentinel or carries one of the
\* three mode tokens; otherwise the rule counts as not matching.
DirectiveWellFormed(d) ==
  LET parts == SplitAndTrim(d)
  IN \/ parts[1] = <<"default">>
     \/ Len(parts) >= 2 /\ IsModeToken(parts[2])

\* The state a single directive decodes to, for a pane in state pre.
Decoded(d, pre) == setFolderOrFileModeState(NullState, d, pre)

FolderRuleMatches(rule, note) ==
  /\ rule.folder # <<>>
  /\ rule.viewMode # <<>>
  /\ rule.folder \in VaultFolders
  /\ InFolder(note, rule.folder)

FileRuleMatches(rule, note) ==
  /\ rule.filePattern # <<>>
  /\ rule.viewMode # <<>>
  /\ RegexSearch(Basename(note), rule.filePattern)

\* Indices of the rules that match the note with a well-formed directive.
FolderMatches(note) ==
  {i \in DOMAIN settings.folders :
     /\ FolderRuleMatches(settings.folders[i], note)
     /\ DirectiveWellFormed(settings.folders[i].viewMode)}

FileMatches(note) ==
  {i \in DOMAIN settings.files :
     /\ FileRuleMatches(settings.files[i], note)
     /\ DirectiveWellFormed(settings.files[i].viewMode)}

\* No rule matches the note at all, whatever its directive.
NoRuleMatches(note) ==
  /\ \A i \in DOMAIN settings.folders : ~FolderRuleMatches(settings.folders[i], note)
  /\ \A i \in DOMAIN settings.files : ~FileRuleMatches(settings.files[i], note)

\* The pass left the pane in state tg: by a write carrying tg, or without a
\* write because the pane was in tg already.
Applied(tg) ==
  /\ PaneAfter.source = tg.source
  /\ tg.mode \in HostModes => PaneAfter.mode = tg.mode
  /\ last.wrote => last.write = [mode |-> tg.mode, source |-> tg.source]
  /\ ~last.wrote => last.pre = [mode |-> tg.mode, source |-> tg.source]

\* The vault's global defaults, as Obsidian defines them when unset.
GlobalDefaultMode ==
  IF config.defaultViewMode = NONE THEN "source" ELSE config.defaultViewMode

GlobalLivePreview == config.livePreview \in {NONE, "true"}

\* ---------------------------------------------------------------- C1
\* C1: when a note matches a folder rule and a file rule, both with a valid
\* directive, the pass applies the state decoded from the file rule's
\* directive (the list-last matching file rule), whatever the folder rule says.
C1_FileRuleWins ==
  PassRan =>
    LET fo == FolderMatches(last.note)
        fi == FileMatches(last.note)
    IN (/\ \E i \in fo : Decoded(settings.folders[i].viewMode, last.pre).set
        /\ fi # {}
        /\ Decoded(settings.files[MaxOf(fi)].viewMode, last.pre).set)
       => /\ last.path = "rule"
          /\ last.target = Decoded(settings.files[MaxOf(fi)].viewMode, last.pre)
          /\ Applied(last.target)

\* A pass where the folder loop had set one state and a file rule replaced
\* it by another, which was then written.
C1_Witness ==
  /\ PassRan
  /\ last.afterFolders.set
  /\ FileMatches(last.note) # {}
  /\ last.target.set
  /\ last.target # last.afterFolders
  /\ last.target =
       Decoded(settings.files[MaxOf(FileMatches(last.note))].viewMode, last.pre)
  /\ last.wrote
  /\ PaneAfter = [mode |-> last.target.mode, source |-> last.target.source]

\* ---------------------------------------------------------------- C2
\* C2: after the folder loop the directive in effect is that of the matching
\* folder rule that comes last in list order (none if no rule matches; a
\* last rule carrying the sentinel leaves none in effect).
C2_LastFolderRuleWins ==
  PassRan =>
    LET fo == FolderMatches(last.note)
    IN last.afterFolders =
         IF fo = {} THEN NullState
         ELSE Decoded(settings.folders[MaxOf(fo)].viewMode, last.pre)

\* A parent rule followed by a child rule, both matching the note, with
\* different directives: the child's is in effect.
C2_Witness ==
  /\ PassRan
  /\ LET fo == FolderMatches(last.note)
     IN /\ Cardinality(fo) >= 2
        /\ settings.folders[MaxOf(fo)].folder = PathND
        /\ \E i \in fo :
             /\ settings.folders[i].folder = PathN
             /\ Decoded(settings.folders[i].viewMode, last.pre)
                  # Decoded(settings.folders[MaxOf(fo)].viewMode, last.pre)
        /\ last.afterFolders.set
        /\ last.afterFolders
             = Decoded(settings.folders[MaxOf(fo)].viewMode, last.pre)

\* ---------------------------------------------------------------- C3
\* C3: when the rule in effect (the last matching one, file rules after
\* folder rules) has a valid directive, the pass ends with the pane in the
\* state decoded from it, for every frontmatter of the note.
C3_RuleOverridesMetadata ==
  PassRan =>
    LET fo == FolderMatches(last.note)
        fi == FileMatches(last.note)
        d == IF fi # {} THEN settings.files[MaxOf(fi)].viewMode
             ELSE IF fo # {} THEN settings.folders[MaxOf(fo)].viewMode
             ELSE DEFAULT_DIRECTIVE
    IN Decoded(d, last.pre).set =>
         /\ last.path = "rule"
         /\ Applied(Decoded(d, last.pre))

\* A folder rule "obsidianUIMode: preview" applied to a note whose
\* frontmatter asks for source mode: the pane ends in preview, flag false.
C3_Witness ==
  /\ PassRan
  /\ last.path = "rule"
  /\ FileMatches(last.note) = {}
  /\ last.fm = [ui |-> "source", ed |-> "source"]
  /\ last.pre = [mode |-> "source", source |-> TRUE]
  /\ last.target = ModeState("preview", FALSE)
  /\ PaneAfter = [mode |-> "preview", source |-> FALSE]

\* ---------------------------------------------------------------- C4
\* C4: for a note that no rule matches and that declares neither metadata
\* key, a pass leaves the pane in the global default view mode with the
\* source flag the negation of the global live-preview default; with
\* ignoreForceViewAll set it writes nothing.
C4_GlobalDefaultApplied ==
  (PassRan /\ NoRuleMatches(last.note) /\ last.fm = NoFrontmatter) =>
    IF settings.ignoreForceViewAll
    THEN ~last.wrote /\ PaneAfter = last.pre
    ELSE PaneAfter = [mode |-> GlobalDefaultMode, source |-> ~GlobalLivePreview]

\* A pane in raw source mode brought to the default (preview, live preview).
C4_Witness ==
  /\ PassRan
  /\ NoRuleMatches(last.note)
  /\ last.fm = NoFrontmatter
  /\ ~settings.ignoreForceViewAll
  /\ config = [defaultViewMode |-> "preview", livePreview |-> "true"]
  /\ last.pre = [mode |-> "source", source |-> TRUE]
  /\ last.wrote
  /\ PaneAfter = [mode |-> "preview", source |-> FALSE]

\* ---------------------------------------------------------------- C5
\* C5: with ignoreOpenFiles set, a pass for a note whose basename is in the
\* registry when the pass starts resolves nothing, writes nothing, and
\* rebuilds the registry from the panes that are open.
C5_OpenNoteSkipped ==
  (/\ last.kind = "pass"
   /\ leaves[last.leaf].view = "md"
   /\ settings.ignoreOpenFiles
   /\ \E i \in DOMAIN last.regBefore : last.regBefore[i] = Basename(last.note)) =>
    LET open == {l \in DOMAIN leaves : leaves[l].view = "md"}
    IN /\ last.path = "skip"
       /\ ~last.target.set
       /\ ~last.wrote
       /\ PaneAfter = last.pre
       /\ Len(openedFiles) = Cardinality(open)
       /\ \A l \in open :
            \E i \in DOMAIN openedFiles : openedFiles[i] = Basename(leaves[l].file)
       /\ \A i \in DOMAIN openedFiles :
            \E l \in open : openedFiles[i] = Basename(leaves[l].file)

\* A skipped pass for a note a folder rule would have switched to preview,
\* with a registry that was out of date and is rebuilt.
C5_Witness ==
  /\ last.kind = "pass"
  /\ last.path = "skip"
  /\ FolderMatches(last.note) # {}
  /\ last.pre.mode = "source"
  /\ PaneAfter = last.pre
  /\ last.regBefore # openedFiles
  /\ openedFiles = <<Basename(last.note)>>

\* ---------------------------------------------------------------- C6
\* C6: with ignoreOpenFiles set, a pass for a note that was on display in
\* the pane before the triggering event never changes the pane's view mode
\* or source flag.
C6_AlreadyOpenUntouched ==
  (last.kind = "pass" /\ settings.ignoreOpenFiles /\ last.seenBefore) =>
    PaneAfter = last.pre

\* C6, the case the claim names: the note's earlier pass went through the
\* rule tier, the later pass goes through it again.
C6_AlreadyOpenUntouchedByRules ==
  (/\ last.kind = "pass"
   /\ settings.ignoreOpenFiles
   /\ last.seenBefore
   /\ last.path = "rule") =>
    PaneAfter = last.pre

\* ---------------------------------------------------------------- C7
\* C7: in the metadata tier the two keys are applied independently: a
\* recognized view-mode value sets the mode, a recognized editing-mode value
\* sets the source flag to (value = source), and what a key does not set
\* stays as it was; obsidianUIMode=source with obsidianEditingMode=live
\* gives mode source with the source flag false.
C7_MetadataKeysIndependent ==
  (last.kind = "pass" /\ last.path = "meta") =>
    /\ last.wrote
    /\ last.write.mode =
         IF last.fm.ui \in {"source", "preview", "live"} THEN last.fm.ui
         ELSE last.pre.mode
    /\ last.write.source =
         IF last.fm.ed \in {"source", "live"} THEN last.fm.ed = "source"
         ELSE last.pre.source
    /\ PaneAfter.source = last.write.source
    /\ last.write.mode \in HostModes => PaneAfter.mode = last.write.mode
    /\ last.fm = [ui |-> "source", ed |-> "live"] =>
         PaneAfter = [mode |-> "source", source |-> FALSE]

\* The README's example on a pane that was in reading mode with the flag set.
C7_Witness ==
  /\ last.kind = "pass"
  /\ last.path = "meta"
  /\ last.fm = [ui |-> "source", ed |-> "live"]
  /\ last.pre = [mode |-> "preview", source |-> TRUE]
  /\ PaneAfter = [mode |-> "source", source |-> FALSE]

\* ---------------------------------------------------------------- C8
\* C8 as stated: a note that declares only obsidianUIMode=preview and that no
\* rule matches ends in mode preview with the source flag false, for every
\* initial pane state.
C8_PreviewKeyClearsSourceFlag ==
  (PassRan /\ NoRuleMatches(last.note)
     /\ last.fm = [ui |-> "preview", ed |-> NONE]) =>
    PaneAfter = [mode |-> "preview", source |-> FALSE]

\* C8 as amended: such a note ends in mode preview with the source flag the
\* pane had before the pass.
C8_PreviewKeyKeepsSourceFlag ==
  (PassRan /\ NoRuleMatches(last.note)
     /\ last.fm = [ui |-> "preview", ed |-> NONE]) =>
    /\ last.path = "meta"
    /\ PaneAfter = [mode |-> "preview", source |-> last.pre.source]

\* A pane in raw source mode: it ends in preview, the flag still set.
C8_Witness ==
  /\ PassRan
  /\ NoRuleMatches(last.note)
  /\ last.fm = [ui |-> "preview", ed |-> NONE]
  /\ last.pre = [mode |-> "source", source |-> TRUE]
  /\ PaneAfter = [mode |-> "preview", source |-> TRUE]

\* ---------------------------------------------------------------- C9
\* C9: a note that declares only obsidianEditingMode=source and that no rule
\* matches ends with the source flag true and in the global default view
\* mode, for every initial pane state.
C9_EditingKeyDefaultsViewMode ==
  (PassRan /\ NoRuleMatches(last.note)
     /\ last.fm = [ui |-> NONE, ed |-> "source"]) =>
    /\ PaneAfter.source = TRUE
    /\ PaneAfter.mode = GlobalDefaultMode

\* ---------------------------------------------------------------- C10
\* C10: when no rule matched and the metadata keys are absent or carry
\* unrecognized values, the pass falls through to the global-default tier
\* and (unless ignoreForceViewAll is set) applies the global default.
C10_UnrecognizedFallsThrough ==
  (/\ PassRan
   /\ NoRuleMatches(last.note)
   /\ last.fm.ui \notin {"source", "preview", "live"}
   /\ last.fm.ed \notin {"source", "live"}) =>
    /\ last.path = "default"
    /\ ~settings.ignoreForceViewAll =>
         PaneAfter = [mode |-> GlobalDefaultMode, source |-> ~GlobalLivePreview]

\* ---------------------------------------------------------------- C11
\* The key of a directive is the sentinel.
IsSentinel(d) == SplitAndTrim(d)[1] = <<"default">>

\* C11: when the last rule that matches the note with a well-formed
\* directive (file rules after folder rules) carries the sentinel "default",
\* no rule-derived state is applied: the pass goes to the metadata tier if
\* the note declares a key and to the global-default tier otherwise, and
\* writes that tier's state.
C11_SentinelClearsEarlierRules ==
  PassRan =>
    LET fo == FolderMatches(last.note)
        fi == FileMatches(last.note)
        d == IF fi # {} THEN settings.files[MaxOf(fi)].viewMode
             ELSE IF fo # {} THEN settings.folders[MaxOf(fo)].viewMode
             ELSE <<>>
    IN (d # <<>> /\ IsSentinel(d)) =>
         /\ ~last.target.set
         /\ last.path = IF last.fm = NoFrontmatter THEN "default" ELSE "meta"
         /\ last.wrote
         /\ last.write = IF last.fm = NoFrontmatter
                         THEN DefaultState(config, last.pre)
                         ELSE MetadataState(last.fm, last.pre)

\* A folder rule had set a state, a later file rule "default" cleared it, and
\* the pane got the global default instead of the folder rule's state.
C11_Witness ==
  /\ PassRan
  /\ last.afterFolders.set
  /\ FileMatches(last.note) # {}
  /\ IsSentinel(settings.files[MaxOf(FileMatches(last.note))].viewMode)
  /\ ~last.target.set
  /\ last.path = "default"
  /\ last.wrote
  /\ last.write # [mode |-> last.afterFolders.mode, source |-> last.afterFolders.source]
  /\ PaneAfter = last.write

\* ---------------------------------------------------------------- C12
\* C12: no pass, in whichever tier, issues a pane state write when the mode
\* and source flag it computed both equal the pane's current ones.
C12_NoRedundantWrite ==
  (last.kind = "pass" /\ last.wrote) => last.write # last.pre

\* ---------------------------------------------------------------- C13
\* C13: two passes in succession for the same pane, the first one completed,
\* with the note, its frontmatter, the settings and the vault configuration
\* unchanged in between, issue at most one state write together.
C13_SecondPassWritesNothing ==
  [][(/\ last.kind \in {"pass", "done"}
      /\ PendingCount = 0
      /\ last'.kind = "pass"
      /\ last'.leaf = last.leaf
      /\ last'.note = last.note
      /\ last'.fm = last.fm
      /\ settings' = settings
      /\ config' = config)
     => ~(last.wrote /\ last'.wrote)]_vars

\* ---------------------------------------------------------------- C14
\* C14: with a non-zero debounce delay, an event starts no pass by itself
\* (it only becomes the pending call's argument); the passes are those of
\* the expiring timer, one per window, each called for the pane of the most
\* recent event of its window, and every window does get its pass.
C14_DebounceCoalesces ==
  /\ [](scheduler.delay # 0 =>
          /\ last.kind = "event" =>
               /\ scheduler.timer
               /\ scheduler.args = last.leaf
          /\ last.kind = "pass" =>
               /\ last.via = "timer"
               /\ last.window # <<>>
               /\ last.leaf = last.window[Len(last.window)]
               /\ ~scheduler.timer
               /\ scheduler.window = <<>>)
  /\ [][(scheduler.delay # 0 /\ last'.kind = "event") =>
          UNCHANGED <<leaves, openedFiles, pending>>]_vars
  /\ (scheduler.timer ~> (last.kind = "pass" /\ last.via = "timer"))

\* Two events for different panes in one window, then one pass, for the
\* pane of the second event.
C14_Witness ==
  /\ scheduler.delay # 0
  /\ last.kind = "pass"
  /\ last.via = "timer"
  /\ Len(last.window) = 2
  /\ last.window[1] # last.window[2]
  /\ last.leaf = last.window[2]
  /\ ~scheduler.timer

\* ---------------------------------------------------------------- C15
\* C15: when the plugin is loaded with debounceTimeout 0, no event is ever
\* held back: every event is a call of the pass for its pane, no timer is
\* started and no events are coalesced.
C15_ZeroDelayRunsEveryEvent ==
  scheduler.delay = 0 =>
    /\ last.kind # "event"
    /\ ~scheduler.timer
    /\ scheduler.window = <<>>
    /\ last.kind = "pass" => (last.via = "event" /\ last.window = <<>>)

\* An event for the second pane whose pass wrote the rule's state at once.
C15_Witness ==
  /\ scheduler.delay = 0
  /\ last.kind = "pass"
  /\ last.via = "event"
  /\ last.leaf = 2
  /\ last.wrote
  /\ ~scheduler.timer

\* ---------------------------------------------------------------- C16
\* C16: every call of the pass ends normally, whatever the rules, the pane
\* and the host's answer to the state write: it throws nothing and its
\* promise is not rejected.
C16_NoErrorEscapes ==
  last.kind = "pass" => last.threw = "none"

\* ---------------------------------------------------------------- C17
\* The list s without its i-th element.
RemoveAt(s, i) == [j \in 1..(Len(s) - 1) |-> IF j < i THEN s[j] ELSE s[j + 1]]

\* The pane the latest pass was called for, as it was when the pass began.
PaneBefore ==
  [view |-> "md", file |-> last.note, hasState |-> TRUE,
   mode |-> last.pre.mode, source |-> last.pre.source, seen |-> last.seenBefore]

\* The latest pass resolved what a pass from the same pane, frontmatter and
\* registry resolves under the settings st.
SameOutcomeUnder(st) ==
  LET r == ResolvePass(st, config, PaneBefore, last.fm, last.regBefore, TRUE)
  IN /\ r.path = last.path
     /\ r.afterFolders = last.afterFolders
     /\ r.target = last.target
     /\ r.wrote = last.wrote
     /\ r.write = last.write
     /\ r.threw = last.threw

\* C17: a folder rule whose path names no folder of the vault does not fail
\* the pass and changes nothing in it: the pass resolves what it resolves
\* with that rule removed from the list.
C17_MissingFolderSkipped ==
  PassRan =>
    \A i \in DOMAIN settings.folders :
       (/\ settings.folders[i].folder # <<>>
        /\ settings.folders[i].viewMode # <<>>
        /\ ~IsTFolder(settings.folders[i].folder)) =>
         /\ last.threw = "none"
         /\ SameOutcomeUnder([settings EXCEPT !.folders = RemoveAt(@, i)])

\* A rule for the missing folder "zz" followed by a rule that matches the
\* note: the later rule's state was written.
C17_Witness ==
  /\ PassRan
  /\ Len(settings.folders) = 2
  /\ settings.folders[1].folder = PathZZ
  /\ FolderRuleMatches(settings.folders[2], last.note)
  /\ FileMatches(last.note) = {}
  /\ last.path = "rule"
  /\ last.target = Decoded(settings.folders[2].viewMode, last.pre)
  /\ last.wrote
  /\ PaneAfter = last.write

\* ---------------------------------------------------------------- C18
\* C18: every pane state write a pass issues carries a mode that is
\* "source" or "preview" and a boolean source flag.
C18_WriteCarriesHostMode ==
  (last.kind = "pass" /\ last.wrote) =>
    /\ last.write.mode \in HostModes
    /\ last.write.source \in BOOLEAN

\* ---------------------------------------------------------------- C19
\* The directive of the one rule of the settings, if that rule matches the
\* note of the latest pass (<<>> otherwise).
MatchedDirective ==
  IF FolderRuleMatches(settings.folders[1], last.note)
  THEN settings.folders[1].viewMode
  ELSE IF FileRuleMatches(settings.files[1], last.note)
  THEN settings.files[1].viewMode
  ELSE <<>>

Spellings(k, t) == {Directive(k, t), DirectiveCompact(k, t), DirectivePadded(k, t)}

\* C19 as stated: a directive with the editing-mode key decodes to mode
\* "source" with the source flag false for the token live and true
\* otherwise; a directive with the view-mode key decodes to the token as
\* mode with the source flag false.
C19_EditingKeyForcesSourceMode ==
  PassRan =>
    \A t \in ModeTokens :
       /\ MatchedDirective \in Spellings(OBSIDIAN_EDITING_MODE_KEY, t) =>
            last.target = ModeState("source", t # "live")
       /\ MatchedDirective \in Spellings(OBSIDIAN_UI_MODE_KEY, t) =>
            last.target = ModeState(t, FALSE)

\* C19 as amended: with the editing-mode key, the token live decodes to mode
\* "source" with the source flag false, and any other token to that token
\* as mode with the source flag true; with the view-mode key, the token is
\* the mode and the source flag is false.
C19_EditingKeyKeepsToken ==
  PassRan =>
    \A t \in ModeTokens :
       /\ MatchedDirective \in Spellings(OBSIDIAN_EDITING_MODE_KEY, t) =>
            last.target = IF t = "live" THEN ModeState("source", FALSE)
                          ELSE ModeState(t, TRUE)
       /\ MatchedDirective \in Spellings(OBSIDIAN_UI_MODE_KEY, t) =>
            last.target = ModeState(t, FALSE)

\* A rule "obsidianEditingMode: preview" applied to a pane in live preview:
\* the pane ends in mode preview with the source flag set.
C19_Witness ==
  /\ PassRan
  /\ MatchedDirective \in Spellings(OBSIDIAN_EDITING_MODE_KEY, "preview")
  /\ last.pre = [mode |-> "source", source |-> FALSE]
  /\ last.target = ModeState("preview", TRUE)
  /\ last.wrote
  /\ PaneAfter = [mode |-> "preview", source |-> TRUE]

\* ---------------------------------------------------------------- C20
\* C20: a rule that matches the note but whose directive is not the sentinel
\* and has no recognized mode token counts as not matching: the pass
\* resolves what it resolves with that rule removed from its list, so the
\* state matched by earlier rules stays in effect.
C20_MalformedDirectiveIgnored ==
  PassRan =>
    /\ \A i \in DOMAIN settings.folders :
         (/\ FolderRuleMatches(settings.folders[i], last.note)
          /\ ~DirectiveWellFormed(settings.folders[i].viewMode)) =>
           SameOutcomeUnder([settings EXCEPT !.folders = RemoveAt(@, i)])
    /\ \A i \in DOMAIN settings.files :
         (/\ FileRuleMatches(settings.files[i], last.note)
          /\ ~DirectiveWellFormed(settings.files[i].viewMode)) =>
           SameOutcomeUnder([settings EXCEPT !.files = RemoveAt(@, i)])

\* A folder rule set a state, the file rule "obsidianUIMode: reading" that
\* matches the note came after it, and the folder rule's state was written.
C20_Witness ==
  /\ PassRan
  /\ last.afterFolders.set
  /\ \E i \in DOMAIN settings.files :
       /\ FileRuleMatches(settings.files[i], last.note)
       /\ ~DirectiveWellFormed(settings.files[i].viewMode)
  /\ FileMatches(last.note) = {}
  /\ last.target = last.afterFolders
  /\ last.path = "rule"
  /\ last.wrote
  /\ PaneAfter = [mode |-> last.afterFolders.mode, source |-> last.afterFolders.source]

\* ---------------------------------------------------------------- C21
\* The note's containing folder is folderPath or lies below it in the folder
\* tree of the vault (every folder lies below the root).
InFolderTree(note, folderPath) ==
  \/ folderPath = RootPath
  \/ ParentPath(note) = folderPath
  \/ StartsWith(ParentPath(note), folderPath \o <<"/">>)

\* C21: a folder rule applies to a note only if the note's containing folder
\* is the rule's folder or a descendant of it in the folder tree: when the
\* folder loop of a pass has set a state, some rule of the list names the
\* note's folder or an ancestor of it (a sibling folder whose path only
\* begins with the same characters does not count).
C21_FolderRuleNeedsTreeDescendant ==
  (PassRan /\ last.afterFolders.set) =>
    \E i \in DOMAIN settings.folders :
       /\ settings.folders[i].folder # <<>>
       /\ settings.folders[i].viewMode # <<>>
       /\ IsTFolder(settings.folders[i].folder)
       /\ InFolderTree(last.note, settings.folders[i].folder)

\* ---------------------------------------------------------------- C22
\* The pass whose last step was just taken has returned: it returned without
\* awaiting a continuation, or its continuation has run.
PassReturned ==
  \/ last.kind = "pass" /\ last.threw = "none" /\
       (last.path \in {"noview", "skip", "rule"} \/ ~last.wrote)
  \/ last.kind = "done"

\* C22: with ignoreOpenFiles set, the registry is rebuilt by a full re-scan
\* at the end of every pass that skipped the note, of every pass that wrote
\* a state (rule tier, metadata tier and default tier alike) and of every
\* pass for a pane without a note view: when such a pass has returned, the
\* registry is the scan of the panes.
C22_RegistryRebuiltAfterPass ==
  (/\ settings.ignoreOpenFiles
   /\ PassReturned
   /\ (last.path \in {"noview", "skip"} \/ last.wrote)) =>
    openedFiles = resetOpenedNotes(leaves)

\* ---------------------------------------------------------------- C23
\* The basenames of the notes on display in some pane.
DisplayedBasenames ==
  {Basename(leaves[l].file) :
     l \in {k \in DOMAIN leaves : leaves[k].view = "md" /\ leaves[k].file # NONE}}

\* C23: the registry tracks the notes on display: whatever panes were
\* closed, notes opened or settings changed before it, the registry a pass
\* reads (line 60: suppression set, the pane hosting a note view) holds no
\* entry for a note that is no longer open in any pane.
C23_NoEntryForClosedNote ==
  (last.kind = "pass" /\ settings.ignoreOpenFiles /\ last.path # "noview") =>
    \A i \in DOMAIN last.regBefore : last.regBefore[i] \in DisplayedBasenames

\* ---------------------------------------------------------------- C24
\* What the pass recorded in p did is what exactly one path of the code
\* does: an early return writes nothing; the rule tier writes the matched
\* state or nothing; the metadata tier writes the state built from the
\* frontmatter; the default tier runs only without matched rule and without
\* metadata key, and writes the default state unless ignoreForceViewAll.
OnePathTaken(p) ==
  /\ p.path \in {"noview", "skip", "rule", "meta", "default"}
  /\ p.path \in {"noview", "skip"} => ~p.wrote
  /\ p.path = "rule" =>
       /\ p.target.set
       /\ p.wrote => p.write = [mode |-> p.target.mode, source |-> p.target.source]
  /\ p.path = "meta" =>
       /\ ~p.target.set
       /\ Truthy(p.fm.ui) \/ Truthy(p.fm.ed)
       /\ p.wrote
       /\ p.write = MetadataState(p.fm, p.pre)
  /\ p.path = "default" =>
       /\ ~p.target.set
       /\ ~Truthy(p.fm.ui) /\ ~Truthy(p.fm.ed)
       /\ p.wrote <=> ~settings.ignoreForceViewAll
       /\ p.wrote => p.write = DefaultState(config, p.pre)

\* C24: every pass takes exactly one path (one of the early returns, the
\* rule tier, the metadata tier or the default tier) and issues at most one
\* state write, the one of that path, to the pane delivered with the event:
\* the pass leaves every other pane as it was, a pass that writes nothing
\* leaves its own pane as it was, and the rest of the pass behind the
\* awaited write changes no pane.
C24_OnePathOneWriteOnePane ==
  [][/\ last'.kind = "pass" =>
          /\ OnePathTaken(last')
          /\ \A k \in DOMAIN leaves \ {last'.leaf} : leaves'[k] = leaves[k]
          /\ ~last'.wrote =>
               PaneState(leaves'[last'.leaf]) = PaneState(leaves[last'.leaf])
     /\ PendingCount' < PendingCount => leaves' = leaves]_vars

\* A pass wrote to its pane while another pane shows the same note in a
\* state that differs from the one written.
C24_Witness ==
  /\ last.kind = "pass"
  /\ last.wrote
  /\ PaneAfter # last.pre
  /\ \E k \in DOMAIN leaves \ {last.leaf} :
       /\ leaves[k].view = "md"
       /\ leaves[k].file = last.note
       /\ PaneState(leaves[k]) # PaneAfter

\* ---------------------------------------------------------------- C25
\* The pass just taken is itself suspended at its awaited state write.
OwnSuspension ==
  IF /\ last.kind = "pass"
     /\ last.wrote
     /\ last.threw = "none"
     /\ last.path \in Continuations
  THEN 1 ELSE 0

\* Passes other than the one just taken that are suspended between their
\* read of the registry and their rebuild of it.
OthersSuspended == PendingCount - OwnSuspension

\* C25: a pass runs to completion without another pass interleaving: while
\* a pass is suspended at its awaited state write, between its read and its
\* rebuild of the registry, no other pass reads the registry (ignoreOpenFiles
\* set), rebuilds it or writes pane state.
C25_NoPassWhileSuspended ==
  (/\ last.kind = "pass"
   /\ last.wrote \/ settings.ignoreOpenFiles) =>
    OthersSuspended = 0

\* ---------------------------------------------------------------- C26
\* C26: suppression identifies notes by basename only: with ignoreOpenFiles
\* set, a pass for a note is skipped exactly when some entry of the registry
\* it reads equals the note's basename, whichever note that entry came from.
C26_SuppressionByBasename ==
  (/\ last.kind = "pass"
   /\ settings.ignoreOpenFiles
   /\ last.path # "noview"
   /\ last.note # NONE) =>
    (last.path = "skip" <=>
       \E i \in DOMAIN last.regBefore : last.regBefore[i] = Basename(last.note))

\* Note n/d/ab, just opened in a pane in source mode and governed by a
\* folder rule, is skipped because the registry holds the basename of note
\* nx/ab, which the other pane shows.
C26_Witness ==
  /\ last.kind = "pass"
  /\ settings.ignoreOpenFiles
  /\ last.path = "skip"
  /\ last.note = "N1"
  /\ ~last.seenBefore
  /\ FolderMatches("N1") # {}
  /\ last.pre.mode = "source"
  /\ PaneAfter = last.pre
  /\ last.regBefore = <<Basename("N2")>>
  /\ \E k \in DOMAIN leaves \ {last.leaf} :
       leaves[k].view = "md" /\ leaves[k].file = "N2"

\* ---------------------------------------------------------------- C27
\* C27: the choice between the debounced and the direct handler and the
\* debounce delay are fixed when the plugin loads: no step changes them, an
\* edit of debounceTimeout leaves the registered callback and its timer as
\* they are, and every event is deferred or run at once according to the
\* registration, whatever the setting says by then.
C27_SchedulingFixedAtLoad ==
  [][/\ scheduler'.debounced = scheduler.debounced
     /\ scheduler'.delay = scheduler.delay
     /\ settings'.debounceTimeout # settings.debounceTimeout =>
          scheduler' = scheduler
     /\ last'.kind = "event" =>
          (scheduler.debounced /\ scheduler'.timer /\ leaves' = leaves)
     /\ (last'.kind = "pass" /\ last'.via = "event") => ~scheduler.debounced
     /\ (last'.kind = "pass" /\ last'.via = "timer") =>
          (scheduler.debounced /\ scheduler.timer)]_vars

\* The plugin was loaded with a delay of 300, the setting was then edited to
\* 0, and a focus-change event for a note pane is nevertheless deferred.
C27_Witness ==
  /\ settings.debounceTimeout = 0
  /\ scheduler.debounced
  /\ scheduler.delay = 300
  /\ last.kind = "event"
  /\ leaves[last.leaf].view = "md"
  /\ scheduler.timer
  /\ scheduler.args = last.leaf

\* ---------------------------------------------------------------- C28
\* The directive carries one of the three mode tokens under a key that is
\* neither metadata key nor the sentinel.
HasUnknownKey(d) ==
  LET parts == SplitAndTrim(d)
  IN /\ Len(parts) >= 2
     /\ IsModeToken(parts[2])
     /\ parts[1] \notin {<<OBSIDIAN_UI_MODE_KEY>>, <<OBSIDIAN_EDITING_MODE_KEY>>,
                         <<"default">>}

\* The mode token of a directive.
ModeToken(d) == SplitAndTrim(d)[2][1]

\* C28: a matching rule whose directive has a recognized mode token under an
\* unknown key is not ignored: when it is the last matching file rule, the
\* matched state has the token as mode and the pane's current source flag,
\* and the pass ends in the rule tier with that state applied, whatever the
\* note's frontmatter and the global defaults say.
C28_UnknownKeyDirectiveApplies ==
  PassRan =>
    LET fi == FileMatches(last.note)
    IN (fi # {} /\ HasUnknownKey(settings.files[MaxOf(fi)].viewMode))
       => /\ last.path = "rule"
          /\ last.target =
               ModeState(ModeToken(settings.files[MaxOf(fi)].viewMode),
                         last.pre.source)
          /\ Applied(last.target)

\* A note whose frontmatter asks for raw source mode, shown in raw source
\* mode, is switched to preview by a file rule "mode: preview"; the source
\* flag stays set.
C28_Witness ==
  /\ PassRan
  /\ FileMatches(last.note) # {}
  /\ HasUnknownKey(settings.files[MaxOf(FileMatches(last.note))].viewMode)
  /\ last.fm = [ui |-> "source", ed |-> "source"]
  /\ last.pre = [mode |-> "source", source |-> TRUE]
  /\ last.path = "rule"
  /\ last.wrote
  /\ PaneAfter = [mode |-> "preview", source |-> TRUE]

====
